---- MODULE Spec2Model ----
(***************************************************************************)
(* Model of multifox.  Three state machines share the module:              *)
(*                                                                         *)
(*  - the instance lifecycle: concurrent `launch` invocations              *)
(*    (src/multifox/cli.py) working on one shared instance store through   *)
(*    the helpers of src/multifox/__init__.py.  Every invocation is one OS *)
(*    process; the store (one instance.yml per instance directory) is the  *)
(*    only shared state.  The model follows the instances of one profile:  *)
(*    the launches of other profiles use other directories and meet this   *)
(*    profile only as processes that hold a pid.  (Spec, SpecSeq,          *)
(*    SpecNonRacing, SpecNoRace; SpecTornWrite takes write_instance apart  *)
(*    into its file operations)                                            *)
(*                                                                         *)
(*  - the reconciler: apply_config_to_instance, run after run on the files *)
(*    of one instance, at the level of single file operations.             *)
(*    (SpecReconcile; SpecKill, where a run can be killed half-way)        *)
(*                                                                         *)
(*  - the lookups by browser type: get_executable and                      *)
(*    find_browser_profile_dir as functions of the type and of what the    *)
(*    home directory of an instance holds.  (SpecLookup)                   *)
(***************************************************************************)
EXTENDS Integers, Sequences, FiniteSets, TLC

\* ---------------------------------------------------------------- bounds
NumInvocations == 2   \* launch processes that can be alive at the same time
MaxInstances == 2     \* instance directories the store can hold
MaxUnrelated == 1     \* live processes that are not launches of the profile

Procs == 1..NumInvocations
InstIds == 1..MaxInstances
\* The pid space: as many pids as launches can be alive, so that a pid is
\* given out again as soon as its process has ended.
Pids == 1..NumInvocations
\* Enough readings of datetime.now() to order all instances, or to tie them.
Times == 0..(MaxInstances - 1)

\* usage_pid: Optional[int] = None (model.py:110); None is modelled as 0.
None == 0

\* ProfileInstantiation (model.py:49-56).
SINGLE == "single"
MULTIPLE == "multiple"
ProfileInstantiation == {SINGLE, MULTIPLE}

\* The extension lists the profile configuration may declare (model.py:24),
\* already reduced to basenames.
DeclaredExtensions == {<<>>, <<"a.xpi">>}

VARIABLES
  profile,    \* the model.Profile every launch resolves (config.yml)
  pc,         \* pc[p]: position of invocation p inside cli.launch
  pid,        \* pid[p]: os.getpid() of invocation p (None while not running)
  dirs,       \* dirs[p]: result of os.listdir(instance_base_dir)
  mem,        \* mem[p]: the in-memory Instance object held by p
  log,        \* log[p]: the steps of launch p has performed, in order
  err,        \* err[p]: the exception that ended p ("" if none)
  returncode, \* returncode[p]: the exit status of the browser that p has run
  store,      \* store[i]: content of <state>/instances/<profile>/<i>/instance.yml
  unrelated,  \* unrelated[k]: a process other than a launch holding pid k
  config,     \* the model.ProfileConfiguration given to apply_config_to_instance
  rc,         \* position inside apply_config_to_instance
  instance_files,  \* the files of the instance that reconciliation works on
  sync,       \* the local variables of install_extensions
  old,        \* instance_files as apply_config_to_instance found it
  profile_type,  \* the model.ProfileType given to the two type lookups
  browser_home,  \* what the lookups find in the home directory of an instance
  lookup      \* the call made last, and what it returned or raised

\* The state of the launches (cli.launch and the instance store).
launcher == <<profile, pc, pid, dirs, mem, log, err, returncode, store, unrelated>>

\* The state of the reconciler (apply_config_to_instance on one instance).
reconciler == <<config, rc, instance_files, sync, old>>

\* The state of the lookups by browser type (get_executable and
\* find_browser_profile_dir).
lookups == <<profile_type, browser_home, lookup>>

vars == <<launcher, reconciler, lookups>>

\* ---------------------------------------------------------------- data
\* model.Profile with its ProfileConfiguration (model.py:18-26, 59-65).
Profile == [id : {"profile"}, instantiation : ProfileInstantiation,
            extensions : DeclaredExtensions]

\* model.Instance (model.py:103-124).
Instance == [id : InstIds, profile_id : {"profile"}, creation_time : Times,
             usage_pid : Pids \cup {None},
             installed_extensions : DeclaredExtensions]

\* `instance` before line 48 of cli.py has bound it.
NoInstance == [id |-> None, profile_id |-> "", creation_time |-> 0,
               usage_pid |-> None, installed_extensions |-> <<>>]

\* The exit statuses a browser process can end with.
ExitStatuses == {0, 1, 2}

\* The exit status of the multifox process, by the exception that left
\* cli.launch: the console script (setup.py:13) runs the click group, which
\* ends with status 0 when the command returns, with status 2 on a
\* click.UsageError, and lets every other exception through to the
\* interpreter, which prints the traceback and ends with status 1.
exit_status(exception) ==
  IF exception = "" THEN 0
  ELSE IF exception = "UsageError" THEN 2
  ELSE 1

Ended == {"idle", "done", "failed", "killed"}
Alive(p) == pc[p] \notin Ended

\* The processes that exist, and those for which os.kill(pid, 0) raises no
\* OSError: a process of another user exists, but the probe fails with
\* EPERM, which is an OSError as well.
Existing == {pid[p] : p \in {q \in Procs : Alive(q)}}
              \cup {k \in Pids : unrelated[k] # "none"}
Signalable == {pid[p] : p \in {q \in Procs : Alive(q)}}
                \cup {k \in Pids : unrelated[k] = "own"}

\* The pids that occur as usage_pid in a record, on disk or in memory.
Referenced == ({store[i].usage_pid : i \in DOMAIN store}
                 \cup {mem[p].usage_pid : p \in Procs}) \ {None}

\* os.getpid() of a new process: a pid that no existing process has.
getpid == Pids \ Existing

check_pid(k) == k \in Signalable

\* Faulty variant: Every marker counts, whether or not its process exists.
instance_in_use_any_pid(instance) == instance.usage_pid # None
\* instance_in_use, lines 485-492.
instance_in_use(instance) ==
  IF instance.usage_pid = None THEN FALSE ELSE check_pid(instance.usage_pid)

load_instance(instance_dir) == store[instance_dir]

\* Faulty variant: Saving one record takes the other instances away.
write_instance_only(st, instance) == [i \in {instance.id} |-> instance]
\* write_instance, lines 506-514.
write_instance(st, instance) ==
  [i \in DOMAIN st \cup {instance.id} |->
     IF i = instance.id THEN instance ELSE st[i]]

\* os.listdir(get_instance_base_dir(profile.id)), in an order the file
\* system chooses.
listdir == {i \in DOMAIN store : store[i].profile_id = profile.id}

Orders(S) == {f \in [1..Cardinality(S) -> S] :
                \A a, b \in 1..Cardinality(S) : a # b => f[a] # f[b]}

\* uuid.uuid4(): a name that no existing instance directory has.  Names are
\* only ever compared, so the first unused one stands for any of them.
uuid4 == CHOOSE i \in InstIds : i \notin DOMAIN store /\
           \A j \in InstIds : j \notin DOMAIN store => i <= j
CanCreate == DOMAIN store # InstIds

\* Faulty variant: The new record is born with a marker.
new_instance_in_use(t) ==
  [id |-> uuid4, profile_id |-> profile.id, creation_time |-> t,
   usage_pid |-> 1, installed_extensions |-> <<>>]
\* create_instance, lines 105-108, with the defaults of model.py:106-110.
new_instance(t) ==
  [id |-> uuid4, profile_id |-> profile.id, creation_time |-> t,
   usage_pid |-> None, installed_extensions |-> <<>>]

\* Faulty variant: The comparison of line 90 the other way round.
newer(a, b) == a.creation_time > b.creation_time
\* find_best_instance_for_start, line 90.
older(a, b) == a.creation_time < b.creation_time

\* The loop of find_best_instance_for_start (lines 83-92) over the listing
\* `order`, from position k on, with the candidate found so far.  Each round
\* reads one record and probes its pid; the rounds of one call are taken
\* together as one step of the invocation.
RECURSIVE oldest_free(_, _, _)
oldest_free(order, k, oldest) ==
  IF k > Len(order) THEN oldest
  ELSE LET instance == load_instance(order[k]) IN
       IF instance_in_use(instance) THEN oldest_free(order, k + 1, oldest)
       ELSE IF oldest = NoInstance \/ older(instance, oldest)
            THEN oldest_free(order, k + 1, instance)
            ELSE oldest_free(order, k + 1, oldest)

\* ---------------------------------------------------------------- state
LaunchInit ==
  /\ profile \in Profile
  /\ pc = [p \in Procs |-> "idle"]
  /\ pid = [p \in Procs |-> None]
  /\ dirs = [p \in Procs |-> {}]
  /\ mem = [p \in Procs |-> NoInstance]
  /\ log = [p \in Procs |-> <<>>]
  /\ err = [p \in Procs |-> ""]
  /\ returncode = [p \in Procs |-> 0]
  /\ store = [i \in {} |-> NoInstance]
  /\ unrelated = [k \in Pids |-> "none"]

\* ---------------------------------------------------------------- reconciler data
\* File names, paths and extension ids are sequences of characters.
\* "e/a.xpi", "ap.xpi" and "b.xpi", relative to the configuration directory.
ExtensionPaths ==
  {<<"e", "/", "a", ".", "x", "p", "i">>,
   <<"a", "p", ".", "x", "p", "i">>,
   <<"b", ".", "x", "p", "i">>}

\* Entries the `extensions` list of a profile configuration can have.
MaxDeclared == 2

\* The files `userjs` can name, with their content: a sequence of pieces of
\* text, "\n" being a line end.  The second file does not end in a line end.
NoUserJs == ""
UserJsFiles == {"user.js", "other.js"}
content_of(file) ==
  IF file = "user.js" THEN <<"user_pref(\"a\", 1);", "\n">>
  ELSE <<"user_pref(\"b\", 2);", "\n", "// end">>

\* update_userjs, line 158.
autoDisableScopes == <<"user_pref(\"extensions.autoDisableScopes\", 14);", "\n">>

\* model.ProfileConfiguration (model.py:18-45).  An absent `userjs` is
\* NoUserJs; an absent `extensions` is the empty list, which lines 156, 179
\* and 237 treat alike.
ProfileConfiguration ==
  [userjs : UserJsFiles \cup {NoUserJs},
   extensions : UNION {[1..n -> ExtensionPaths] : n \in 0..MaxDeclared}]

\* A file that does not exist.
NoFile == [exists |-> FALSE, content |-> <<>>]
File(content) == [exists |-> TRUE, content |-> content]

\* install_extensions, lines 225-228, and an entry the browser has changed
\* since (the user granted or revoked a permission).
BaselinePermissions == "internal:privateBrowsingAllowed"
ChangedPermissions == "changed by the browser"

\* os.path.basename: what follows the last "/".
RECURSIVE basename(_)
basename(path) ==
  IF \E k \in 1..Len(path) : path[k] = "/"
  THEN basename(Tail(path))
  ELSE path

\* str.rstrip(chars): drops every trailing character that is in `chars`.
RECURSIVE rstrip(_, _)
rstrip(str, chars) ==
  IF str # <<>> /\ str[Len(str)] \in chars
  THEN rstrip(SubSeq(str, 1, Len(str) - 1), chars)
  ELSE str

\* extension_id_from_file_path, line 310.
extension_id_from_file_path(extension_file_path) ==
  rstrip(basename(extension_file_path), {".", "x", "p", "i"})

\* [os.path.basename(p) for p in config.extensions], line 236.
basenames(extensions) == [k \in 1..Len(extensions) |-> basename(extensions[k])]

Range(seq) == {seq[k] : k \in 1..Len(seq)}

\* install_extensions, lines 174-187: the loop over config.extensions from
\* entry k on.
RECURSIVE diff(_, _, _, _)
diff(extensions, k, to_remove, to_install) ==
  IF k > Len(extensions)
  THEN [to_remove |-> to_remove, to_install |-> to_install]
  ELSE LET extension_file_path == extensions[k]
           extension_file_name == basename(extension_file_path)
       IN IF extension_file_name \in to_remove
          THEN diff(extensions, k + 1, to_remove \ {extension_file_name}, to_install)
          ELSE diff(extensions, k + 1, to_remove,
                    to_install \cup {extension_file_path})

\* dict with one key removed, and with one key set.
del(dict, key) == [k \in DOMAIN dict \ {key} |-> dict[k]]
set(dict, key, value) ==
  [k \in DOMAIN dict \cup {key} |-> IF k = key THEN value ELSE dict[k]]

\* The local variables of install_extensions before it has run.
NoSync ==
  [to_remove |-> {}, to_install |-> {}, remove_todo |-> {}, install_todo |-> {},
   extension_preferences |-> <<>>, ops |-> {}, helper_starts |-> 0,
   zenity |-> "none", helper |-> "none", helper_returncode |-> 0,
   exception |-> ""]

\* A new instance after the warm-up run: the browser has made its profile
\* directory, with an extension-preferences.json that has no entry, no
\* user.js and no extension; the record lists no extension.
ReconcilerInit ==
  /\ config = [userjs |-> NoUserJs, extensions |-> <<>>]
  /\ rc = "idle"
  /\ instance_files = [userjs |-> NoFile, extensions |-> {},
                     extension_preferences |-> <<>>,
                     installed_extensions |-> <<>>]
  /\ sync = NoSync
  /\ old = [dir |-> instance_files, rerun |-> FALSE, recovery |-> FALSE]
\* ---------------------------------------------------------------- lookup data
\* class ProfileType(Enum), model.py:11-15: the members by name.
ProfileTypeMembers == [FIREFOX |-> "firefox", TOR_BROWSER |-> "tor-browser"]
ProfileType == {ProfileTypeMembers[name] : name \in DOMAIN ProfileTypeMembers}

\* What <instance_dir>/.mozilla/firefox can be: not there, or a directory
\* with some of these entries.  An entry is its stem and its suffix.
FirefoxEntries == {<<"abc", ".default">>, <<"xyz", ".default">>, <<"profiles", ".ini">>}
NoDirectory == [exists |-> FALSE, entries |-> {}]
Directory(entries) == [exists |-> TRUE, entries |-> entries]

\* What <instance_dir>/.local/share/tor-browser/.../profile.default can be.
TorProfileDir == {"absent", "file", "directory"}

InstanceDir == [firefox : {NoDirectory} \cup {Directory(entries) : entries \in SUBSET FirefoxEntries},
                tor : TorProfileDir]

\* A call that has returned a value, or has raised.
NoPath == <<>>
NoLookup == [call |-> "", executable |-> "", profile_dir |-> NoPath, exception |-> ""]
ReturnedExecutable(name) ==
  [call |-> "get_executable", executable |-> name, profile_dir |-> NoPath,
   exception |-> ""]
ReturnedProfileDir(path) ==
  [call |-> "find_browser_profile_dir", executable |-> "", profile_dir |-> path,
   exception |-> ""]
Raised(call, exception) ==
  [call |-> call, executable |-> "", profile_dir |-> NoPath, exception |-> exception]

\* str.endswith.
endswith(entry, suffix) == entry[Len(entry)] = suffix

\* model.ProfileType.<name>: AttributeError if the enumeration has no such
\* member.
hasattr(name) == name \in DOMAIN ProfileTypeMembers

\* get_executable, lines 469-482.  The comparison of line 476 looks up
\* model.ProfileType.LIBREWOLF before it compares.
get_executable(type) ==
  IF type = ProfileTypeMembers["FIREFOX"] THEN ReturnedExecutable("firefox")
  ELSE IF ~hasattr("LIBREWOLF") THEN Raised("get_executable", "AttributeError")
  ELSE IF type = ProfileTypeMembers["LIBREWOLF"] THEN ReturnedExecutable("librewolf")
  ELSE IF type = ProfileTypeMembers["TOR_BROWSER"] THEN ReturnedExecutable("tor-browser")
  ELSE Raised("get_executable", "ValueError")

\* find_browser_profile_dir, lines 340-346: the branch of FIREFOX (and
\* LIBREWOLF) once firefox_dir is known.
find_default_dir(firefox_dir) ==
  IF ~firefox_dir.exists
  THEN Raised("find_browser_profile_dir", "FileNotFoundError")
  ELSE LET profile_dirs == {e \in firefox_dir.entries : endswith(e, ".default")} IN
         IF Cardinality(profile_dirs) # 1
         THEN Raised("find_browser_profile_dir", "BrokenInstanceException")
         ELSE ReturnedProfileDir(CHOOSE e \in profile_dirs : TRUE)

\* find_browser_profile_dir, lines 329-364.  Line 336 sets firefox_dir for
\* FIREFOX; line 338 looks up model.ProfileType.LIBREWOLF whatever the type
\* is.
find_browser_profile_dir(type, dir) ==
  IF ~hasattr("LIBREWOLF")
  THEN Raised("find_browser_profile_dir", "AttributeError")
  ELSE IF type = ProfileTypeMembers["FIREFOX"] \/ type = ProfileTypeMembers["LIBREWOLF"]
       THEN find_default_dir(dir.firefox)
  ELSE IF type = ProfileTypeMembers["TOR_BROWSER"]
       THEN IF dir.tor # "directory"
            THEN Raised("find_browser_profile_dir", "BrokenInstanceException")
            ELSE ReturnedProfileDir(<<"profile", ".default">>)
  ELSE Raised("find_browser_profile_dir", "ValueError")

\* A firefox instance after its warm-up run; no lookup has been made.
LookupInit ==
  /\ profile_type = ProfileTypeMembers["FIREFOX"]
  /\ browser_home = [firefox |-> Directory({<<"abc", ".default">>}), tor |-> "absent"]
  /\ lookup = NoLookup

\* No launch has started, and the instance that reconciliation works on has
\* just been created.
Init == LaunchInit /\ ReconcilerInit /\ LookupInit

Goto(p, label) == pc' = [pc EXCEPT ![p] = label]
Logged(p, event) == log' = [log EXCEPT ![p] = Append(@, event)]
Raise(p, exception) == err' = [err EXCEPT ![p] = exception]

\* The process of invocation p ends: its variables are gone, and how it
\* ended is what remains to be seen.
Exit(p, label, exception) ==
  /\ pc' = [pc EXCEPT ![p] = label]
  /\ err' = [err EXCEPT ![p] = exception]
  /\ pid' = [pid EXCEPT ![p] = None]
  /\ dirs' = [dirs EXCEPT ![p] = {}]
  /\ mem' = [mem EXCEPT ![p] = NoInstance]
  /\ log' = [log EXCEPT ![p] = <<>>]
  /\ returncode' = [returncode EXCEPT ![p] = 0]

\* ---------------------------------------------------------------- launch
\* The user runs `multifox launch`: a new process enters cli.launch.
launch_start(p) ==
  /\ pc[p] \in Ended
  /\ \E k \in getpid : pid' = [pid EXCEPT ![p] = k]
  /\ Goto(p, "start")
  /\ err' = [err EXCEPT ![p] = ""]
  /\ UNCHANGED <<profile, reconciler, lookups, returncode, dirs, mem, log, store, unrelated>>

\* cli.launch, line 36: config.yml cannot be read or lacks a required key
\* or has an invalid enum value (model.py:76-81, 99).
load_config_fail(p) ==
  /\ pc[p] = "start"
  /\ Exit(p, "failed", "BrokenConfig")
  /\ UNCHANGED <<profile, reconciler, lookups, store, unrelated>>

\* Faulty variant: The profile is looked up only after an instance has been
\* made for it.
usage_error_after_create(p) ==
  /\ pc[p] = "start"
  /\ CanCreate
  /\ store' = write_instance(store, new_instance(0))
  /\ Exit(p, "failed", "UsageError")
  /\ UNCHANGED <<profile, reconciler, lookups, unrelated>>

\* cli.launch, lines 38-46: the picker returns nothing, or no profile has
\* the given name.
usage_error(p) ==
  /\ pc[p] = "start"
  /\ Exit(p, "failed", "UsageError")
  /\ UNCHANGED <<profile, reconciler, lookups, store, unrelated>>

\* cli.launch, lines 36-46: the configuration is loaded and the profile
\* found.
resolve_profile(p) ==
  /\ pc[p] = "start"
  /\ Goto(p, "list")
  /\ UNCHANGED <<profile, reconciler, lookups, pid, returncode, dirs, mem, log, err, store, unrelated>>

\* find_best_instance_for_start, lines 70-72.
list_instances(p) ==
  /\ pc[p] = "list"
  /\ dirs' = [dirs EXCEPT ![p] = listdir]
  /\ Goto(p, "select")
  /\ UNCHANGED <<profile, reconciler, lookups, pid, returncode, mem, log, err, store, unrelated>>

\* create_instance, lines 105-109: the record is on disk before the warm-up
\* browser run starts.
create_instance(p) ==
  /\ CanCreate
  /\ \E t \in Times :
       LET instance == new_instance(t) IN
         /\ store' = write_instance(store, instance)
         /\ mem' = [mem EXCEPT ![p] = instance]
  /\ Goto(p, "warmup")
  /\ Logged(p, "created")
  /\ dirs' = [dirs EXCEPT ![p] = {}]
  /\ UNCHANGED <<pid, returncode, err>>

\* The selection returns an existing instance.
use_existing(p, instance) ==
  /\ mem' = [mem EXCEPT ![p] = instance]
  /\ Goto(p, "check")
  /\ Logged(p, "selected")
  /\ dirs' = [dirs EXCEPT ![p] = {}]
  /\ UNCHANGED <<pid, returncode, err, store>>

\* Faulty variant: More than one instance: take one of them instead of failing.
BrokenProfileRepaired(p) ==
  use_existing(p, load_instance(CHOOSE i \in dirs[p] : TRUE))

\* error.BrokenProfileException leaves launch.
BrokenProfileException(p) ==
  /\ Exit(p, "failed", "BrokenProfile")
  /\ UNCHANGED store

\* Faulty variant: Single instantiation that never looks at what exists.
select_single_always_create(p) ==
  /\ pc[p] = "select"
  /\ profile.instantiation = SINGLE
  /\ create_instance(p)
  /\ UNCHANGED <<profile, reconciler, lookups, unrelated>>

\* find_best_instance_for_start, lines 73-81.
select_single(p) ==
  /\ pc[p] = "select"
  /\ profile.instantiation = SINGLE
  /\ LET n_instances == Cardinality(dirs[p]) IN
       IF n_instances = 1
       THEN \E instance_dir \in dirs[p] : use_existing(p, load_instance(instance_dir))
       ELSE IF n_instances = 0
            THEN create_instance(p)
            ELSE BrokenProfileException(p)
  /\ UNCHANGED <<profile, reconciler, lookups, unrelated>>

\* Faulty variant: Multiple instantiation that takes any listed instance, in
\* use or not.
select_multiple_any(p) ==
  /\ pc[p] = "select"
  /\ profile.instantiation = MULTIPLE
  /\ IF dirs[p] = {}
     THEN create_instance(p)
     ELSE \E instance_dir \in dirs[p] : use_existing(p, load_instance(instance_dir))
  /\ UNCHANGED <<profile, reconciler, lookups, unrelated>>

\* find_best_instance_for_start, lines 82-95.
select_multiple(p) ==
  /\ pc[p] = "select"
  /\ profile.instantiation = MULTIPLE
  /\ \E instance_dirs \in Orders(dirs[p]) :
       LET oldest_free_instance == oldest_free(instance_dirs, 1, NoInstance) IN
         IF oldest_free_instance = NoInstance
         THEN create_instance(p)
         ELSE use_existing(p, oldest_free_instance)
  /\ UNCHANGED <<profile, reconciler, lookups, unrelated>>

\* create_instance, lines 112-122: the warm-up run (check=True) succeeds.
warmup_ok(p) ==
  /\ pc[p] = "warmup"
  /\ Goto(p, "check")
  /\ Logged(p, "selected")
  /\ UNCHANGED <<profile, reconciler, lookups, pid, returncode, dirs, mem, err, store, unrelated>>

\* Faulty variant: A failed warm-up run takes the new instance away again.
warmup_fail_cleanup(p) ==
  /\ pc[p] = "warmup"
  /\ store' = [i \in DOMAIN store \ {mem[p].id} |-> store[i]]
  /\ Exit(p, "failed", "CalledProcessError")
  /\ UNCHANGED <<profile, reconciler, lookups, unrelated>>

\* The warm-up run fails: the exception leaves launch before line 50.
warmup_fail(p) ==
  /\ pc[p] = "warmup"
  /\ Exit(p, "failed", "CalledProcessError")
  /\ UNCHANGED <<profile, reconciler, lookups, store, unrelated>>

\* Faulty variant: The in-use check inside the try block, so that the finally
\* block clears the marker of the process that holds the instance.
check_in_use_inside_try(p) ==
  /\ pc[p] = "check"
  /\ IF instance_in_use(mem[p])
     THEN Goto(p, "release") /\ Raise(p, "InUse") /\ UNCHANGED <<pid, returncode, dirs, mem, log>>
     ELSE Goto(p, "claim") /\ UNCHANGED <<pid, returncode, dirs, mem, log, err>>
  /\ UNCHANGED <<profile, reconciler, lookups, store, unrelated>>

\* Faulty variant: The claim write of lines 53-54 is left out.
check_in_use_skip_claim(p) ==
  /\ pc[p] = "check"
  /\ IF instance_in_use(mem[p])
     THEN Exit(p, "failed", "InUse")
     ELSE Goto(p, "reconcile") /\ UNCHANGED <<pid, returncode, dirs, mem, log, err>>
  /\ UNCHANGED <<profile, reconciler, lookups, store, unrelated>>

\* cli.launch, lines 50-51.
check_in_use(p) ==
  /\ pc[p] = "check"
  /\ IF instance_in_use(mem[p])
     THEN Exit(p, "failed", "InUse")
     ELSE Goto(p, "claim") /\ UNCHANGED <<pid, returncode, dirs, mem, log, err>>
  /\ UNCHANGED <<profile, reconciler, lookups, store, unrelated>>

\* cli.launch, lines 53-54.
claim(p) ==
  /\ pc[p] = "claim"
  /\ LET instance == [mem[p] EXCEPT !.usage_pid = pid[p]] IN
       /\ mem' = [mem EXCEPT ![p] = instance]
       /\ store' = write_instance(store, instance)
  /\ Goto(p, "reconcile")
  /\ Logged(p, "claimed")
  /\ UNCHANGED <<profile, reconciler, lookups, pid, returncode, dirs, err, unrelated>>

\* Faulty variant: The record write of reconciliation writes a record
\* without the marker.
update_instance_info_unmarked(p) ==
  LET instance == [mem[p] EXCEPT !.installed_extensions = profile.extensions] IN
    /\ mem' = [mem EXCEPT ![p] = instance]
    /\ store' = write_instance(store, [instance EXCEPT !.usage_pid = None])

\* install_extensions, lines 234-240: the record write of reconciliation.
update_instance_info(p) ==
  LET instance == [mem[p] EXCEPT !.installed_extensions = profile.extensions] IN
    /\ mem' = [mem EXCEPT ![p] = instance]
    /\ store' = write_instance(store, instance)

\* cli.launch, line 56: apply_config_to_instance returns.
reconcile_ok(p) ==
  /\ pc[p] = "reconcile"
  /\ update_instance_info(p)
  /\ Goto(p, "launch")
  /\ Logged(p, "reconciled")
  /\ UNCHANGED <<profile, reconciler, lookups, pid, returncode, dirs, err, unrelated>>

\* Faulty variant: No try/finally: the exception leaves launch at once.
reconcile_fail_no_release(p) ==
  /\ pc[p] = "reconcile"
  /\ Exit(p, "failed", "ReconcileError")
  /\ UNCHANGED <<profile, reconciler, lookups, store, unrelated>>

\* apply_config_to_instance raises before its record write (a missing
\* browser profile directory, a missing file, a missing metadata key) ...
reconcile_fail_early(p) ==
  /\ pc[p] = "reconcile"
  /\ Goto(p, "release")
  /\ Raise(p, "ReconcileError")
  /\ Logged(p, "reconcile_failed")
  /\ UNCHANGED <<profile, reconciler, lookups, pid, returncode, dirs, mem, store, unrelated>>

\* ... or after it (lines 243-300: the helper processes cannot be started).
reconcile_fail_late(p) ==
  /\ pc[p] = "reconcile"
  /\ update_instance_info(p)
  /\ Goto(p, "release")
  /\ Raise(p, "ReconcileError")
  /\ Logged(p, "reconcile_failed")
  /\ UNCHANGED <<profile, reconciler, lookups, pid, returncode, dirs, unrelated>>

\* launch_browser, lines 320-326: subprocess.run starts the browser ...
browser_start(p) ==
  /\ pc[p] = "launch"
  /\ Goto(p, "browser")
  /\ Logged(p, "browser_started")
  /\ UNCHANGED <<profile, reconciler, lookups, pid, returncode, dirs, mem, err, store, unrelated>>

\* ... or cannot start it.
browser_start_fail(p) ==
  /\ pc[p] = "launch"
  /\ Goto(p, "release")
  /\ Raise(p, "LaunchError")
  /\ Logged(p, "browser_failed")
  /\ UNCHANGED <<profile, reconciler, lookups, pid, returncode, dirs, mem, store, unrelated>>

\* The browser process terminates; check=True turns a nonzero status into
\* CalledProcessError.
browser_exit(p) ==
  /\ pc[p] = "browser"
  /\ \E status \in ExitStatuses :
       /\ returncode' = [returncode EXCEPT ![p] = status]
       /\ Raise(p, IF status = 0 THEN "" ELSE "CalledProcessError")
  /\ Goto(p, "release")
  /\ Logged(p, "browser_exited")
  /\ UNCHANGED <<profile, reconciler, lookups, pid, dirs, mem, store, unrelated>>

\* cli.launch, lines 58-60: the finally block, after which the process ends.
release(p) ==
  /\ pc[p] = "release"
  /\ LET instance == [mem[p] EXCEPT !.usage_pid = None] IN
       store' = write_instance(store, instance)
  /\ Exit(p, IF err[p] = "" THEN "done" ELSE "failed", err[p])
  /\ UNCHANGED <<profile, reconciler, lookups, unrelated>>

\* ---------------------------------------------------------------- environment
\* SIGKILL, power loss: the process disappears without running `finally`.
kill(p) ==
  /\ Alive(p)
  /\ Exit(p, "killed", "")
  /\ UNCHANGED <<profile, reconciler, lookups, store, unrelated>>

\* Some other program starts under a free pid, as this user or as another
\* one.  Only a pid that a record names can matter to a launch, so processes
\* under other pids are left out.
unrelated_spawn(k) ==
  /\ k \notin Existing
  /\ k \in Referenced
  /\ Cardinality({j \in Pids : unrelated[j] # "none"}) < MaxUnrelated
  /\ \E owner \in {"own", "other"} : unrelated' = [unrelated EXCEPT ![k] = owner]
  /\ UNCHANGED <<profile, reconciler, lookups, pc, pid, returncode, dirs, mem, log, err, store>>

unrelated_exit(k) ==
  /\ unrelated[k] # "none"
  /\ unrelated' = [unrelated EXCEPT ![k] = "none"]
  /\ UNCHANGED <<profile, reconciler, lookups, pc, pid, returncode, dirs, mem, log, err, store>>

\* Everything an invocation does after it has started.
Step(p) ==
  \/ load_config_fail(p)
  \/ usage_error(p)
  \/ resolve_profile(p)
  \/ list_instances(p)
  \/ select_single(p)
  \/ select_multiple(p)
  \/ warmup_ok(p)
  \/ warmup_fail(p)
  \/ check_in_use(p)
  \/ claim(p)
  \/ reconcile_ok(p)
  \/ reconcile_fail_early(p)
  \/ reconcile_fail_late(p)
  \/ browser_start(p)
  \/ browser_start_fail(p)
  \/ browser_exit(p)
  \/ release(p)
  \/ kill(p)

Environment ==
  \/ \E k \in Pids : unrelated_spawn(k)
  \/ \E k \in Pids : unrelated_exit(k)

\* Launches start at any time, also while others run.
Next ==
  \/ \E p \in Procs : launch_start(p)
  \/ \E p \in Procs : Step(p)
  \/ Environment

Spec == Init /\ [][Next]_vars

\* The user starts a launch only after the previous one has ended.
launch_start_seq(p) ==
  /\ \A q \in Procs : ~Alive(q)
  /\ launch_start(p)

NextSeq ==
  \/ \E p \in Procs : launch_start_seq(p)
  \/ \E p \in Procs : Step(p)
  \/ Environment

SpecSeq == Init /\ [][NextSeq]_vars

\* The non-racing path: between the return of find_best_instance_for_start
\* (cli.py:48) and the in-use check (cli.py:50) of an invocation nothing else
\* happens.  Launches overlap in every other way.
NonRacing(p) == \A q \in Procs \ {p} : pc[q] # "check"

launch_start_nonracing(p) == NonRacing(p) /\ launch_start(p)

step_nonracing(p) == NonRacing(p) /\ Step(p)

environment_nonracing == (\A q \in Procs : pc[q] # "check") /\ Environment

NextNonRacing ==
  \/ \E p \in Procs : launch_start_nonracing(p)
  \/ \E p \in Procs : step_nonracing(p)
  \/ environment_nonracing

SpecNonRacing == Init /\ [][NextNonRacing]_vars

\* The path without the race window of selection and claim: from the
\* listing of the instances (line 70) to the claim write (line 54) of an
\* invocation nothing else happens.  Launches overlap in every other way.
InRaceWindow(q) == pc[q] \in {"select", "warmup", "check", "claim"}

NoRace(p) == \A q \in Procs \ {p} : ~InRaceWindow(q)

launch_start_norace(p) == NoRace(p) /\ launch_start(p)

step_norace(p) == NoRace(p) /\ Step(p)

environment_norace == (\A q \in Procs : ~InRaceWindow(q)) /\ Environment

NextNoRace ==
  \/ \E p \in Procs : launch_start_norace(p)
  \/ \E p \in Procs : step_norace(p)
  \/ environment_norace

SpecNoRace == Init /\ [][NextNoRace]_vars

\* ---------------------------------------------------------------- record files
\* write_instance step by step (lines 512-514): os.makedirs makes the
\* instance directory, open(..., "w") makes or empties instance.yml, and
\* yaml.dump fills it.  What a reader finds in between is kept in the store
\* as a record that lists, in place of extensions, what is wrong with it.
Missing(i) ==
  [id |-> i, profile_id |-> profile.id, creation_time |-> 0,
   usage_pid |-> None, installed_extensions |-> <<"no instance.yml">>]
Truncated(i) ==
  [id |-> i, profile_id |-> profile.id, creation_time |-> 0,
   usage_pid |-> None, installed_extensions |-> <<"empty instance.yml">>]

\* load_instance (lines 500-503) can read the record: open() finds the file
\* and instance_from_yaml finds the keys.
Complete(record) == record.installed_extensions \in DeclaredExtensions

\* The loads that find_best_instance_for_start makes all succeed: one load
\* with single instantiation and one directory (line 76), one per listed
\* directory with multiple instantiation (line 86).
Readable(p) ==
  IF profile.instantiation = SINGLE
  THEN Cardinality(dirs[p]) = 1 => \A i \in dirs[p] : Complete(store[i])
  ELSE \A i \in dirs[p] : Complete(store[i])

\* find_best_instance_for_start comes to create_instance (lines 78, 94).
selection_creates(p) ==
  IF profile.instantiation = SINGLE
  THEN dirs[p] = {}
  ELSE \A i \in dirs[p] : instance_in_use(load_instance(i))

select_single_readable(p) == Readable(p) /\ select_single(p)

select_multiple_readable(p) == Readable(p) /\ select_multiple(p)

\* load_instance raises (FileNotFoundError for a directory without
\* instance.yml, TypeError for an empty one), and the exception leaves
\* launch.
load_instance_fail(p) ==
  /\ pc[p] = "select"
  /\ ~Readable(p)
  /\ Exit(p, "failed", "BrokenRecord")
  /\ UNCHANGED <<profile, reconciler, lookups, store, unrelated>>

\* create_instance, line 109, first part: os.makedirs.
create_instance_makedirs(p) ==
  /\ pc[p] = "select"
  /\ Readable(p)
  /\ selection_creates(p)
  /\ CanCreate
  /\ \E t \in Times :
       LET instance == new_instance(t) IN
         /\ store' = write_instance(store, Missing(instance.id))
         /\ mem' = [mem EXCEPT ![p] = instance]
  /\ Goto(p, "create_open")
  /\ Logged(p, "created")
  /\ dirs' = [dirs EXCEPT ![p] = {}]
  /\ UNCHANGED <<profile, reconciler, lookups, pid, returncode, err, unrelated>>

\* open(instance_info_file, "w").
create_instance_open(p) ==
  /\ pc[p] = "create_open"
  /\ store' = write_instance(store, Truncated(mem[p].id))
  /\ Goto(p, "create_dump")
  /\ UNCHANGED <<profile, reconciler, lookups, pid, returncode, dirs, mem, log, err, unrelated>>

\* yaml.dump and close.
create_instance_dump(p) ==
  /\ pc[p] = "create_dump"
  /\ store' = write_instance(store, mem[p])
  /\ Goto(p, "warmup")
  /\ UNCHANGED <<profile, reconciler, lookups, pid, returncode, dirs, mem, log, err, unrelated>>

\* cli.launch, lines 53-54, up to the open() of write_instance.
claim_open(p) ==
  /\ pc[p] = "claim"
  /\ mem' = [mem EXCEPT ![p].usage_pid = pid[p]]
  /\ store' = write_instance(store, Truncated(mem[p].id))
  /\ Goto(p, "claim_dump")
  /\ UNCHANGED <<profile, reconciler, lookups, pid, returncode, dirs, log, err, unrelated>>

claim_dump(p) ==
  /\ pc[p] = "claim_dump"
  /\ store' = write_instance(store, mem[p])
  /\ Goto(p, "reconcile")
  /\ Logged(p, "claimed")
  /\ UNCHANGED <<profile, reconciler, lookups, pid, returncode, dirs, mem, err, unrelated>>

\* cli.launch, lines 59-60, up to the open() of write_instance.
release_open(p) ==
  /\ pc[p] = "release"
  /\ mem' = [mem EXCEPT ![p].usage_pid = None]
  /\ store' = write_instance(store, Truncated(mem[p].id))
  /\ Goto(p, "release_dump")
  /\ UNCHANGED <<profile, reconciler, lookups, pid, returncode, dirs, log, err, unrelated>>

release_dump(p) ==
  /\ pc[p] = "release_dump"
  /\ store' = write_instance(store, mem[p])
  /\ Exit(p, IF err[p] = "" THEN "done" ELSE "failed", err[p])
  /\ UNCHANGED <<profile, reconciler, lookups, unrelated>>

\* A launch with the record writes of creation, claim and release taken
\* apart (a write that no reader looks into is the same as one made in one
\* step, so those stay).
StepTornWrite(p) ==
  \/ load_config_fail(p)
  \/ usage_error(p)
  \/ resolve_profile(p)
  \/ list_instances(p)
  \/ select_single_readable(p)
  \/ select_multiple_readable(p)
  \/ load_instance_fail(p)
  \/ create_instance_makedirs(p)
  \/ create_instance_open(p)
  \/ create_instance_dump(p)
  \/ warmup_ok(p)
  \/ warmup_fail(p)
  \/ check_in_use(p)
  \/ claim(p)
  \/ claim_open(p)
  \/ claim_dump(p)
  \/ reconcile_ok(p)
  \/ reconcile_fail_early(p)
  \/ reconcile_fail_late(p)
  \/ browser_start(p)
  \/ browser_start_fail(p)
  \/ browser_exit(p)
  \/ release(p)
  \/ release_open(p)
  \/ release_dump(p)

\* No process is killed and no pid is taken again here: what is looked at
\* is a reader that meets a writer which goes on to finish its write.
NextTornWrite ==
  \/ \E p \in Procs : launch_start(p)
  \/ \E p \in Procs : StepTornWrite(p)

SpecTornWrite == Init /\ [][NextTornWrite]_vars

\* ---------------------------------------------------------------- reconciler
\* apply_config_to_instance is not running.
AtRest == rc \in {"idle", "done", "failed", "killed"}

\* The user edits config.yml between two launches.
edit_config ==
  /\ AtRest
  /\ config' \in ProfileConfiguration \ {config}
  /\ rc' = "idle"
  /\ sync' = NoSync
  /\ old' = [dir |-> instance_files, rerun |-> FALSE, recovery |-> FALSE]
  /\ UNCHANGED <<launcher, lookups, instance_files>>

\* The browser rewrites an entry of extension-preferences.json while the
\* user works with it.
browser_changes_permissions ==
  /\ AtRest
  /\ \E id \in DOMAIN instance_files.extension_preferences :
       /\ instance_files.extension_preferences[id] # ChangedPermissions
       /\ instance_files' =
            [instance_files EXCEPT !.extension_preferences[id] = ChangedPermissions]
  /\ rc' = "idle"
  /\ sync' = NoSync
  /\ old' = [dir |-> instance_files', rerun |-> FALSE, recovery |-> FALSE]
  /\ UNCHANGED <<launcher, lookups, config>>

\* The record, the extension files and the metadata entries of an instance
\* name the same extensions, as they do after a sync that has completed.
Consistent(dir) ==
  /\ dir.extensions = Range(dir.installed_extensions)
  /\ DOMAIN dir.extension_preferences
       = {extension_id_from_file_path(e) : e \in dir.extensions}

\* cli.launch, line 56: apply_config_to_instance is called.  The run is a
\* recovery if the run before it was killed, with the same configuration, and
\* had begun with an instance in order.
apply_config_to_instance ==
  /\ AtRest
  /\ rc' = "update_userjs"
  /\ sync' = NoSync
  /\ old' = [dir |-> instance_files, rerun |-> (rc = "done"),
             recovery |-> (rc = "killed" /\ Consistent(old.dir))]
  /\ UNCHANGED <<launcher, lookups, config, instance_files>>

\* Faulty variant: A user.js that is there already is left as it is.
update_userjs_keep_existing ==
  /\ rc = "update_userjs"
  /\ instance_files' =
       [instance_files EXCEPT !.userjs =
          IF config.userjs = NoUserJs THEN NoFile
          ELSE IF @.exists THEN @
          ELSE File(content_of(config.userjs))]
  /\ rc' = "append_userjs"
  /\ UNCHANGED <<launcher, lookups, config, sync, old>>

\* update_userjs, lines 148-153: remove the file, or copy the declared one
\* over it.
update_userjs_copy ==
  /\ rc = "update_userjs"
  /\ instance_files' =
       [instance_files EXCEPT !.userjs =
          IF config.userjs = NoUserJs THEN NoFile
          ELSE File(content_of(config.userjs))]
  /\ rc' = "append_userjs"
  /\ UNCHANGED <<launcher, lookups, config, sync, old>>

\* Faulty variant: The line is written on every run, whether or not
\* extensions are declared.
update_userjs_append_always ==
  /\ rc = "append_userjs"
  /\ instance_files' =
       [instance_files EXCEPT !.userjs = File(@.content \o autoDisableScopes)]
  /\ rc' = "diff"
  /\ UNCHANGED <<launcher, lookups, config, sync, old>>

\* update_userjs, lines 155-158: open(..., "a") makes the file if there is
\* none and writes at its end.
update_userjs_append ==
  /\ rc = "append_userjs"
  /\ instance_files' =
       IF Len(config.extensions) > 0
       THEN [instance_files EXCEPT !.userjs = File(@.content \o autoDisableScopes)]
       ELSE instance_files
  /\ rc' = "diff"
  /\ UNCHANGED <<launcher, lookups, config, sync, old>>

\* install_extensions, lines 174-195: the diff, and extension-preferences.json
\* read into memory.
install_extensions_diff ==
  /\ rc = "diff"
  /\ LET d == diff(config.extensions, 1,
                   Range(instance_files.installed_extensions), {}) IN
       sync' = [sync EXCEPT !.to_remove = d.to_remove,
                            !.to_install = d.to_install,
                            !.remove_todo = d.to_remove,
                            !.install_todo = d.to_install,
                            !.extension_preferences =
                               instance_files.extension_preferences]
  /\ rc' = "remove"
  /\ UNCHANGED <<launcher, lookups, config, instance_files, old>>

\* One round of the loop of lines 198-209, in the order the set gives.
remove_extension ==
  /\ rc = "remove"
  /\ \E extension_file_name \in sync.remove_todo :
       LET extension_id == extension_id_from_file_path(extension_file_name) IN
         /\ instance_files' = [instance_files EXCEPT
                               !.extensions = @ \ {extension_file_name}]
         /\ IF extension_id \in DOMAIN sync.extension_preferences
            THEN /\ sync' = [sync EXCEPT
                     !.remove_todo = @ \ {extension_file_name},
                     !.extension_preferences = del(@, extension_id),
                     !.ops = @ \cup {<<"remove", extension_file_name>>,
                                     <<"del", extension_id>>}]
                 /\ rc' = rc
            ELSE \* del raises KeyError, which leaves apply_config_to_instance
                 /\ sync' = [sync EXCEPT
                     !.ops = @ \cup {<<"remove", extension_file_name>>},
                     !.exception = "KeyError"]
                 /\ rc' = "failed"
  /\ UNCHANGED <<launcher, lookups, config, old>>

\* The remove list is done.
remove_done ==
  /\ rc = "remove"
  /\ sync.remove_todo = {}
  /\ rc' = "install"
  /\ UNCHANGED <<launcher, lookups, config, instance_files, sync, old>>

\* One round of the loop of lines 212-228.
install_extension ==
  /\ rc = "install"
  /\ \E rel_extension_file_path \in sync.install_todo :
       LET extension_file_name == basename(rel_extension_file_path)
           extension_id == extension_id_from_file_path(extension_file_name)
       IN /\ instance_files' = [instance_files EXCEPT
                                !.extensions = @ \cup {extension_file_name}]
          /\ sync' = [sync EXCEPT
               !.install_todo = @ \ {rel_extension_file_path},
               !.extension_preferences = set(@, extension_id, BaselinePermissions),
               !.ops = @ \cup {<<"copy", extension_file_name>>,
                               <<"set", extension_id>>}]
  /\ UNCHANGED <<launcher, lookups, config, rc, old>>

\* install_extensions, lines 230-232.
write_extension_preferences ==
  /\ rc = "install"
  /\ sync.install_todo = {}
  /\ instance_files' = [instance_files EXCEPT
                        !.extension_preferences = sync.extension_preferences]
  /\ rc' = "write_instance"
  /\ UNCHANGED <<launcher, lookups, config, sync, old>>

\* install_extensions, lines 234-240.
write_installed_extensions ==
  /\ rc = "write_instance"
  /\ instance_files' = [instance_files EXCEPT
                        !.installed_extensions = basenames(config.extensions)]
  /\ rc' = "helper"
  /\ UNCHANGED <<launcher, lookups, config, sync, old>>

\* install_extensions, line 243.
changes == Cardinality(sync.to_remove) + Cardinality(sync.to_install)

\* install_extensions, lines 250-264: the progress bar is started ...
start_zenity ==
  /\ rc = "helper"
  /\ changes > 0
  /\ sync' = [sync EXCEPT !.zenity = "running"]
  /\ rc' = "start_browser"
  /\ UNCHANGED <<launcher, lookups, config, instance_files, old>>

\* ... or Popen finds no zenity.
start_zenity_fail ==
  /\ rc = "helper"
  /\ changes > 0
  /\ sync' = [sync EXCEPT !.exception = "FileNotFoundError"]
  /\ rc' = "failed"
  /\ UNCHANGED <<launcher, lookups, config, instance_files, old>>

\* install_extensions, lines 270-278: the browser is started once more to
\* finish what was installed or removed ...
run_helper_browser ==
  /\ rc = "start_browser"
  /\ sync' = [sync EXCEPT !.helper_starts = @ + 1, !.helper = "running"]
  /\ rc' = "wait"
  /\ UNCHANGED <<launcher, lookups, config, instance_files, old>>

\* ... or Popen cannot start it.
run_helper_browser_fail ==
  /\ rc = "start_browser"
  /\ sync' = [sync EXCEPT !.exception = "FileNotFoundError"]
  /\ rc' = "failed"
  /\ UNCHANGED <<launcher, lookups, config, instance_files, old>>

\* install_extensions, lines 289-295: zenity has gone (no display, closed,
\* crashed), and a write to its stdin raises BrokenPipeError.
progress_write_fail ==
  /\ rc = "wait"
  /\ sync' = [sync EXCEPT !.zenity = "exited", !.exception = "BrokenPipeError"]
  /\ rc' = "failed"
  /\ UNCHANGED <<launcher, lookups, config, instance_files, old>>

\* install_extensions, lines 289-295: while the loop sleeps, the helper
\* browser ends by itself, with a status of its own.
helper_exits ==
  /\ rc = "wait"
  /\ sync.helper = "running"
  /\ \E status \in {0, 1} :
       sync' = [sync EXCEPT !.helper = "exited", !.helper_returncode = status]
  /\ UNCHANGED <<launcher, lookups, config, rc, instance_files, old>>

\* install_extensions, lines 289-300: the hundred rounds of the wait are
\* over; zenity and the browser are terminated and the browser waited for.
\* terminate() of a process that has ended does nothing, and what wait()
\* returns is not looked at.
terminate_helper ==
  /\ rc = "wait"
  /\ sync' = [sync EXCEPT !.zenity = "terminated",
                          !.helper = IF @ = "running" THEN "terminated" ELSE @]
  /\ rc' = "done"
  /\ UNCHANGED <<launcher, lookups, config, instance_files, old>>

\* Faulty variant: The helper browser is run although nothing was installed
\* or removed.
run_helper_browser_always ==
  /\ rc = "helper"
  /\ changes = 0
  /\ sync' = [sync EXCEPT !.helper_starts = @ + 1, !.helper = "terminated"]
  /\ rc' = "done"
  /\ UNCHANGED <<launcher, lookups, config, instance_files, old>>

\* install_extensions, line 243: there is nothing to finish.
skip_helper_browser ==
  /\ rc = "helper"
  /\ changes = 0
  /\ rc' = "done"
  /\ UNCHANGED <<launcher, lookups, config, instance_files, sync, old>>

\* install_extensions is running.
InExtensionSync ==
  rc \in {"diff", "remove", "install", "write_instance", "helper",
          "start_browser", "wait"}

\* SIGKILL or power loss while install_extensions runs: the process and its
\* helpers (--die-with-parent) are gone, the files stay as they are.  What
\* the instance was when the killed run began is kept for the properties.
kill_reconciler ==
  /\ InExtensionSync
  /\ rc' = "killed"
  /\ sync' = NoSync
  /\ old' = [old EXCEPT !.rerun = FALSE, !.recovery = FALSE]
  /\ UNCHANGED <<launcher, lookups, config, instance_files>>

\* Reconciliation of one instance, run after run; the launches of the
\* instance are left out (`launcher` stays as it is).
NextReconcile ==
  \/ edit_config
  \/ browser_changes_permissions
  \/ apply_config_to_instance
  \/ update_userjs_copy
  \/ update_userjs_append
  \/ install_extensions_diff
  \/ remove_extension
  \/ remove_done
  \/ install_extension
  \/ write_extension_preferences
  \/ write_installed_extensions
  \/ start_zenity
  \/ start_zenity_fail
  \/ run_helper_browser
  \/ run_helper_browser_fail
  \/ progress_write_fail
  \/ helper_exits
  \/ terminate_helper
  \/ skip_helper_browser

InitReconcile ==
  /\ Init
  /\ profile = [id |-> "profile", instantiation |-> SINGLE, extensions |-> <<>>]

SpecReconcile == InitReconcile /\ [][NextReconcile]_vars

\* The user edits the extension list of the profile in config.yml between
\* two launches.
edit_extensions ==
  /\ AtRest
  /\ config' \in {c \in ProfileConfiguration : c.userjs = config.userjs} \ {config}
  /\ rc' = "idle"
  /\ sync' = NoSync
  /\ old' = [dir |-> instance_files, rerun |-> FALSE, recovery |-> FALSE]
  /\ UNCHANGED <<launcher, lookups, instance_files>>

\* Reconciliation of one instance, launch after launch, where a launch may
\* be killed at any step.
NextKill ==
  \/ edit_extensions
  \/ apply_config_to_instance
  \/ update_userjs_copy
  \/ update_userjs_append
  \/ install_extensions_diff
  \/ remove_extension
  \/ remove_done
  \/ install_extension
  \/ write_extension_preferences
  \/ write_installed_extensions
  \/ start_zenity
  \/ start_zenity_fail
  \/ run_helper_browser
  \/ run_helper_browser_fail
  \/ progress_write_fail
  \/ helper_exits
  \/ terminate_helper
  \/ skip_helper_browser
  \/ kill_reconciler

SpecKill == InitReconcile /\ [][NextKill]_vars

\* ---------------------------------------------------------------- lookups
\* Another profile, or another instance: the type that
\* profile_configuration_from_yaml (model.py:42) has made from config.yml,
\* and a home directory in any state.
another_instance ==
  /\ profile_type' \in ProfileType
  /\ browser_home' \in InstanceDir
  /\ <<profile_type', browser_home'>> # <<profile_type, browser_home>>
  /\ lookup' = NoLookup
  /\ UNCHANGED <<launcher, reconciler>>

\* get_bubblewrap_cmd_line, line 382: the executable of the browser type.
which_executable ==
  /\ lookup' = get_executable(profile_type)
  /\ UNCHANGED <<launcher, reconciler, profile_type, browser_home>>

\* update_userjs, line 142, and install_extensions, line 171: the browser
\* profile directory of the instance.
locate_browser_profile ==
  /\ lookup' = find_browser_profile_dir(profile_type, browser_home)
  /\ UNCHANGED <<launcher, reconciler, profile_type, browser_home>>

NextLookup ==
  \/ another_instance
  \/ which_executable
  \/ locate_browser_profile

SpecLookup == InitReconcile /\ [][NextLookup]_vars

\* ---------------------------------------------------------------- properties
\* Invocation p is between its claim write and its release write.
Holding(p) == pc[p] \in {"reconcile", "launch", "browser", "release"}

\* The record names no process, or one that does not exist (any more).
Stale(instance) ==
  instance.usage_pid # None /\ instance.usage_pid \notin Existing

\* find_best_instance_for_start returns to invocation p in this step.
SelectionReturns(p) == pc[p] = "select" /\ pc'[p] \in {"warmup", "check"}

IsPrefix(s, t) == Len(s) <= Len(t) /\ SubSeq(t, 1, Len(s)) = s

\* C1: once an invocation has written its claim, the persisted usage_pid of
\* its instance is none when the invocation ends, on every way out of the
\* claimed region other than a kill: after the browser has exited (with any
\* status), after the browser could not be started, and after a failure of
\* reconciliation.
C1_ReleaseOnEveryExit ==
  [][\A p \in Procs :
       (Holding(p) /\ ~Holding(p)') =>
          \/ pc'[p] = "killed"
          \/ /\ pc'[p] \in {"done", "failed"}
             /\ mem[p].id \in DOMAIN store'
             /\ store'[mem[p].id].usage_pid = None]_vars

\* A launch whose reconciliation failed has ended and no record carries a
\* marker.
C1_Witness ==
  \E p \in Procs :
    /\ pc[p] = "failed"
    /\ err[p] = "ReconcileError"
    /\ DOMAIN store # {}
    /\ \A i \in DOMAIN store : store[i].usage_pid = None

\* C2: no two live invocations are between claim write and release write on
\* the same instance at the same time.
C2_MutualExclusion ==
  \A p, q \in Procs :
    (p # q /\ Holding(p) /\ Holding(q)) => mem[p].id # mem[q].id

\* C3: a profile with single instantiation never has more than one instance
\* directory, starting from an empty store.
C3_SingleHasAtMostOne ==
  profile.instantiation = SINGLE => Cardinality(listdir) <= 1

\* C4: within one invocation the steps occur in the order selection, claim
\* write, reconciliation, browser launch, release write: reconciliation only
\* with the claim written, the browser only after reconciliation has
\* succeeded, the release only after the browser has terminated or after
\* the step that failed.
LaunchOrders ==
  {<<"selected", "claimed", "reconciled", "browser_started", "browser_exited">>,
   <<"selected", "claimed", "reconciled", "browser_failed">>,
   <<"selected", "claimed", "reconcile_failed">>,
   <<"created", "selected", "claimed", "reconciled", "browser_started", "browser_exited">>,
   <<"created", "selected", "claimed", "reconciled", "browser_failed">>,
   <<"created", "selected", "claimed", "reconcile_failed">>}

C4_StepOrder ==
  \A p \in Procs :
    /\ \E order \in LaunchOrders : IsPrefix(log[p], order)
    /\ pc[p] = "reconcile" =>
         /\ log[p] # <<>> /\ log[p][Len(log[p])] = "claimed"
         /\ mem[p].usage_pid = pid[p]
    /\ pc[p] = "browser" =>
         /\ log[p] # <<>> /\ log[p][Len(log[p])] = "browser_started"
         /\ log[p][Len(log[p]) - 1] = "reconciled"
    /\ pc[p] = "release" =>
         /\ log[p] \in LaunchOrders
         /\ mem[p].usage_pid = pid[p]

\* An invocation has been through all steps and is about to release.
C4_Witness ==
  \E p \in Procs :
    /\ pc[p] = "release"
    /\ log[p] = <<"created", "selected", "claimed", "reconciled",
                  "browser_started", "browser_exited">>

\* C5: with multiple instantiation, selection returns one of the enumerated
\* instances that is not in use, with the smallest creation_time among them,
\* never one whose usage_pid names a live process, and it creates an instance
\* only when no enumerated instance is free.
C5_OldestFree ==
  [][\A p \in Procs :
       (SelectionReturns(p) /\ profile.instantiation = MULTIPLE) =>
         LET free == {i \in dirs[p] : store[i].usage_pid = None
                                        \/ store[i].usage_pid \notin Signalable}
         IN IF free = {}
            THEN /\ pc'[p] = "warmup"
                 /\ mem'[p].id \notin DOMAIN store
            ELSE /\ pc'[p] = "check"
                 /\ store' = store
                 /\ mem'[p].id \in free
                 /\ mem'[p] = store[mem'[p].id]
                 /\ \A j \in free :
                      store[j].creation_time >= mem'[p].creation_time]_vars

\* Selection has passed over the older instance, which a live launch holds,
\* and returned the younger, free one.
C5_Witness ==
  /\ profile.instantiation = MULTIPLE
  /\ \E p, q \in Procs :
       /\ pc[p] = "check" /\ log[p] = <<"selected">>
       /\ Holding(q)
       /\ store[mem[q].id].usage_pid = pid[q]
       /\ store[mem[q].id].creation_time < mem[p].creation_time

\* The two cases of single instantiation in which selection returns: nothing
\* enumerated, and one instance enumerated.
C6_SingleSelection ==
  [][\A p \in Procs :
       (SelectionReturns(p) /\ profile.instantiation = SINGLE) =>
          /\ dirs[p] = {} =>
               /\ pc'[p] = "warmup"
               /\ mem'[p].id \notin DOMAIN store
               /\ DOMAIN store' = DOMAIN store \cup {mem'[p].id}
          /\ dirs[p] # {} =>
               /\ pc'[p] = "check"
               /\ dirs[p] = {mem'[p].id}
               /\ mem'[p] = store[mem'[p].id]
               /\ store' = store]_vars

\* All launches work on the one instance of the store, and a launch that has
\* ended well leaves exactly one behind.
C6_OneInstance ==
  profile.instantiation = SINGLE =>
    /\ Cardinality(DOMAIN store) <= 1
    /\ \A p \in Procs : mem[p] # NoInstance => DOMAIN store = {mem[p].id}
    /\ (\E p \in Procs : pc[p] = "done") => Cardinality(DOMAIN store) = 1

\* C6: with single instantiation, selection creates exactly one instance when
\* it enumerated none, and returns the one it enumerated, whatever its
\* usage_pid, creating nothing; so launches that run one after the other,
\* starting from an empty store, all use one instance and the store never
\* holds a second one.
C6_SequentialLaunches == C6_SingleSelection /\ []C6_OneInstance

\* A later launch has claimed the instance that an earlier, finished launch
\* left behind.
C6_Witness ==
  /\ profile.instantiation = SINGLE
  /\ Cardinality(DOMAIN store) = 1
  /\ \E p, q \in Procs :
       /\ pc[q] = "done"
       /\ pc[p] = "reconcile"
       /\ log[p] = <<"selected", "claimed">>

\* C7: with single instantiation and two or more instance directories,
\* selection fails with BrokenProfile and changes nothing in the store; the
\* directories stay, so every later enumeration finds them again.
C7_BrokenProfile ==
  [][/\ \A p \in Procs :
          (pc[p] = "select" /\ profile.instantiation = SINGLE
             /\ Cardinality(dirs[p]) >= 2
             /\ pc'[p] \notin {"select", "killed"}) =>
             /\ pc'[p] = "failed"
             /\ err'[p] = "BrokenProfile"
             /\ store' = store
     /\ \A p \in Procs :
          (pc[p] = "list" /\ pc'[p] = "select") => dirs'[p] = DOMAIN store
     /\ DOMAIN store \subseteq DOMAIN store']_vars

C7_Witness ==
  /\ profile.instantiation = SINGLE
  /\ Cardinality(DOMAIN store) >= 2
  /\ \E p \in Procs : pc[p] = "failed" /\ err[p] = "BrokenProfile"

\* C8: with multiple instantiation, when every existing instance is in use
\* by a live process (or none exists), selection creates exactly one
\* instance, under an id no existing instance has, persisted with usage_pid
\* none and no installed extensions, and leaves all other records as they
\* were.
C8_CreateWhenAllInUse ==
  [][\A p \in Procs :
       (/\ SelectionReturns(p)
        /\ profile.instantiation = MULTIPLE
        /\ \A i \in DOMAIN store : store[i].usage_pid \in Signalable) =>
          \E new \in InstIds \ DOMAIN store :
            /\ DOMAIN store' = DOMAIN store \cup {new}
            /\ store'[new] = [id |-> new, profile_id |-> profile.id,
                              creation_time |-> store'[new].creation_time,
                              usage_pid |-> None,
                              installed_extensions |-> <<>>]
            /\ mem'[p] = store'[new]
            /\ \A i \in DOMAIN store : store'[i] = store[i]]_vars

\* A launch has created a second instance while a live launch holds the
\* first one.
C8_Witness ==
  /\ profile.instantiation = MULTIPLE
  /\ \E p, q \in Procs :
       /\ pc[p] = "warmup" /\ log[p] = <<"created">>
       /\ Holding(q)
       /\ mem[q].id # mem[p].id
       /\ store[mem[q].id].usage_pid = pid[q]
       /\ DOMAIN store = {mem[p].id, mem[q].id}

\* C9: a record whose usage_pid names a process that no longer exists counts
\* as free: multiple-mode selection takes it into the oldest-first choice
\* (it returns an enumerated instance that is at least as old), and the
\* in-use check of launch lets the launch go on to claim it.
C9_StaleMarkerIsFree ==
  [][\A p \in Procs :
       /\ (SelectionReturns(p) /\ profile.instantiation = MULTIPLE) =>
            \A i \in dirs[p] :
              Stale(store[i]) =>
                /\ pc'[p] = "check"
                /\ mem'[p].id \in dirs[p]
                /\ mem'[p].creation_time <= store[i].creation_time
       /\ (pc[p] = "check" /\ Stale(mem[p])
             /\ pc'[p] \notin {"check", "killed"}) =>
            pc'[p] = "claim"]_vars

\* A launch has selected an instance that still carries the marker of a
\* process that is gone, has passed the in-use check and is about to claim.
C9_Witness ==
  /\ profile.instantiation = MULTIPLE
  /\ \E p \in Procs :
       /\ pc[p] = "claim"
       /\ log[p] = <<"selected">>
       /\ Stale(mem[p])
       /\ store[mem[p].id] = mem[p]

\* C10: whenever instance_in_use reports true for a record, the invocation
\* that wrote the record's usage_pid is alive and has not released.
C10_InUseMeansHeld ==
  \A i \in DOMAIN store :
    instance_in_use(store[i]) =>
      \E p \in Procs :
        Holding(p) /\ mem[p].id = i /\ pid[p] = store[i].usage_pid

\* C11: when the instance that selection returned carries the pid of a live
\* process, the launch ends at the in-use check with the in-use error and
\* nothing is written: the store is as it was (the holder's marker neither
\* overwritten nor cleared), and the launch goes from the check straight to
\* its end, through no claim, reconciliation, browser launch or release; for
\* single and for multiple instantiation.
C11_InUseAborts ==
  [][\A p \in Procs :
       (/\ pc[p] = "check"
        /\ mem[p].usage_pid # None
        /\ mem[p].usage_pid \in Signalable
        /\ pc'[p] \notin {"check", "killed"}) =>
          /\ pc'[p] = "failed"
          /\ err'[p] = "InUse"
          /\ store' = store]_vars

\* A launch has ended with the in-use error; the launch that holds the one
\* instance of the profile is still running its browser, and its marker is
\* still in the record.
C11_Witness ==
  /\ profile.instantiation = SINGLE
  /\ \E p, q \in Procs :
       /\ pc[p] = "failed" /\ err[p] = "InUse"
       /\ pc[q] = "browser"
       /\ DOMAIN store = {mem[q].id}
       /\ store[mem[q].id].usage_pid = pid[q]

\* C12 as stated: on the non-racing path no launch ends with the in-use
\* error, whatever the instantiation mode.
C12_NeverInUseError ==
  \A p \in Procs : ~(pc[p] = "failed" /\ err[p] = "InUse")

\* C12, amended: on the non-racing path of a profile with multiple
\* instantiation, selection never returns an instance whose marker names a
\* live process, and no launch ends with the in-use error, also when it was
\* started while an earlier launch is running its browser.  (With single
\* instantiation selection returns the one instance whatever its marker, and
\* the in-use error is what stops the second launch.)
C12_MultipleNeverInUseError ==
  /\ [][\A p \in Procs :
          (SelectionReturns(p) /\ profile.instantiation = MULTIPLE) =>
             ~(mem'[p].usage_pid # None /\ mem'[p].usage_pid \in Signalable)]_vars
  /\ [](profile.instantiation = MULTIPLE =>
          \A p \in Procs : ~(pc[p] = "failed" /\ err[p] = "InUse"))

\* A launch has passed the in-use check with the younger instance while an
\* earlier launch is running its browser on the older one.
C12_Witness ==
  /\ profile.instantiation = MULTIPLE
  /\ \E p, q \in Procs :
       /\ pc[q] = "browser"
       /\ store[mem[q].id].usage_pid = pid[q]
       /\ pc[p] = "claim"
       /\ mem[p].id # mem[q].id
       /\ mem[p].creation_time > store[mem[q].id].creation_time

\* C18: a launch that has run the browser ends with the exit status of the
\* browser, zero or not; a launch that fails before it has run the browser
\* ends with a status other than zero.
C18_ExitStatus ==
  [][\A p \in Procs :
       (Alive(p) /\ pc'[p] \in {"done", "failed"}) =>
          IF log[p] # <<>> /\ log[p][Len(log[p])] = "browser_exited"
          THEN exit_status(err'[p]) = returncode[p]
          ELSE exit_status(err'[p]) # 0]_vars

\* C19: a launch that fails while it loads the configuration and resolves
\* the profile (no profile picked, no profile of that name, a malformed
\* configuration) ends with a usage or configuration error and has not begun
\* selection: the store is as it was, no instance directory more and no
\* record changed.
C19_NoMutationBeforeSelection ==
  [][\A p \in Procs :
       /\ (pc[p] = "start" /\ pc'[p] = "failed") =>
            /\ err'[p] \in {"UsageError", "BrokenConfig"}
            /\ exit_status(err'[p]) # 0
            /\ store' = store
       /\ (pc[p] = "start" /\ pc'[p] = "start") =>
            (dirs'[p] = {} /\ mem'[p] = NoInstance /\ log'[p] = <<>>)]_vars

\* A launch has ended with a usage error and the store holds nothing; and
\* one has ended so while another launch holds the one instance.
C19_Witness ==
  \E p \in Procs :
    /\ pc[p] = "failed"
    /\ err[p] = "UsageError"
    /\ \E q \in Procs :
         /\ pc[q] = "browser"
         /\ DOMAIN store = {mem[q].id}
         /\ store[mem[q].id] = mem[q]

C21_FailedWarmupLeavesInstance ==
  [][\A p \in Procs :
       /\ (pc[p] = "select" /\ pc'[p] = "warmup") =>
            /\ mem'[p].id \in DOMAIN store'
            /\ store'[mem'[p].id] = mem'[p]
            /\ mem'[p].usage_pid = None
            /\ mem'[p].installed_extensions = <<>>
       /\ (pc[p] = "warmup" /\ pc'[p] = "failed") =>
            /\ err'[p] = "CalledProcessError"
            /\ store' = store
            /\ mem[p].id \in DOMAIN store'
       /\ (pc[p] = "list" /\ pc'[p] = "select") => dirs'[p] = DOMAIN store
       /\ (/\ profile.instantiation = SINGLE
           /\ pc[p] = "select"
           /\ Cardinality(dirs[p]) = 1
           /\ pc'[p] \notin {"select", "killed"}) =>
            /\ pc'[p] = "check"
            /\ dirs[p] = {mem'[p].id}
            /\ store' = store]_vars

\* The warm-up run of the launch that made the instance has failed; the
\* record is as create_instance wrote it, and the next launch of the single
\* profile has taken that instance.
C21_Witness ==
  /\ profile.instantiation = SINGLE
  /\ \E p, q \in Procs :
       /\ pc[q] = "failed" /\ err[q] = "CalledProcessError"
       /\ pc[p] = "check" /\ log[p] = <<"selected">>
       /\ DOMAIN store = {mem[p].id}
       /\ store[mem[p].id].usage_pid = None
       /\ store[mem[p].id].installed_extensions = <<>>

\* C25: when an invocation writes its release, the marker on disk just
\* before the write is its own pid; no release clears the marker of another
\* invocation.
C25_ReleaseClearsOwnMarker ==
  [][\A p \in Procs :
       (pc[p] = "release" /\ pc'[p] \in {"done", "failed"}) =>
          store[mem[p].id].usage_pid = pid[p]]_vars

\* C26: while the warm-up run of the launch that created an instance is in
\* progress, no other invocation holds a claim on that instance (reconciles
\* it or runs its browser in it).
C26_NoClaimDuringWarmup ==
  \A p, q \in Procs :
    (p # q /\ pc[p] = "warmup") => ~(Holding(q) /\ mem[q].id = mem[p].id)

\* C22: a launch that enumerates and loads the instances while another
\* launch is inside write_instance finds a complete record for every listed
\* instance, the old or the new one, and its selection never fails because
\* of the write.
C22_AtomicSave ==
  /\ \A p \in Procs : ~(pc[p] = "failed" /\ err[p] = "BrokenRecord")
  /\ \A p \in Procs :
       pc[p] = "select" => \A i \in dirs[p] : Complete(store[i])

\* ---------------------------------------------------------------- reconciler properties
\* The id an extension file is named after ("<extension-id>.xpi").
id_of(extension_file_name) ==
  SubSeq(extension_file_name, 1, Len(extension_file_name) - 4)

\* update_userjs has returned, install_extensions has not failed.
AfterUserJs ==
  rc \in {"diff", "remove", "install", "write_instance", "helper",
          "start_browser", "wait", "done"}

\* The lines of a text: the pieces between line ends; text after the last
\* line end is a line as well.
RECURSIVE SplitLines(_, _)
SplitLines(content, line) ==
  IF content = <<>> THEN (IF line = <<>> THEN <<>> ELSE <<line>>)
  ELSE IF Head(content) = "\n"
       THEN <<line>> \o SplitLines(Tail(content), <<>>)
       ELSE SplitLines(Tail(content), Append(line, Head(content)))
Lines(content) == SplitLines(content, <<>>)

declared_content == IF config.userjs = NoUserJs THEN <<>> ELSE content_of(config.userjs)

\* C13: after a successful extension sync of installed set I against the
\* declared list D, the record lists the basenames of D; what was in I and
\* is not in D has neither file nor metadata entry; what is in D and was not
\* in I has its file, copied in this run, and a metadata entry with the
\* baseline permissions; what is in both has file and metadata entry as
\* before, untouched by this run; and the files in the extension directory
\* are those the record lists.
C13_SyncConverges ==
  rc = "done" =>
    LET I == Range(old.dir.installed_extensions)
        D == Range(basenames(config.extensions))
        now == instance_files
    IN /\ now.installed_extensions = basenames(config.extensions)
       /\ \A e \in I \ D :
            /\ e \notin now.extensions
            /\ id_of(e) \notin DOMAIN now.extension_preferences
       /\ \A e \in D \ I :
            /\ e \in now.extensions
            /\ <<"copy", e>> \in sync.ops
            /\ id_of(e) \in DOMAIN now.extension_preferences
            /\ now.extension_preferences[id_of(e)] = BaselinePermissions
       /\ \A e \in D \cap I :
            /\ (e \in now.extensions) = (e \in old.dir.extensions)
            /\ <<"copy", e>> \notin sync.ops
            /\ <<"remove", e>> \notin sync.ops
            /\ (id_of(e) \in DOMAIN now.extension_preferences)
                 = (id_of(e) \in DOMAIN old.dir.extension_preferences)
            /\ id_of(e) \in DOMAIN now.extension_preferences =>
                 now.extension_preferences[id_of(e)]
                   = old.dir.extension_preferences[id_of(e)]
       /\ now.extensions = Range(now.installed_extensions)

\* C14: a second extension sync with the same declared list, right after a
\* successful first one, computes two empty lists, changes no extension
\* file, no metadata entry and not the record, and starts no helper browser.
C14_SyncIdempotent ==
  (old.rerun /\ rc \in {"remove", "install", "write_instance", "helper", "done"}) =>
    /\ sync.to_remove = {}
    /\ sync.to_install = {}
    /\ sync.ops = {}
    /\ sync.helper_starts = 0
    /\ instance_files.extensions = old.dir.extensions
    /\ instance_files.extension_preferences = old.dir.extension_preferences
    /\ instance_files.installed_extensions = old.dir.installed_extensions

\* C15: after preference sync for a configuration that declares a
\* preferences file and no extension, user.js has exactly the content of the
\* declared file, whatever it held before, also when an earlier run had
\* applied another file.
C15_UserJsIsDeclaredFile ==
  (AfterUserJs /\ config.userjs # NoUserJs /\ config.extensions = <<>>) =>
    instance_files.userjs = File(content_of(config.userjs))

\* The instance held the content of one declared file, and a run with the
\* other file has replaced it.
C15_Witness ==
  /\ rc = "done"
  /\ config = [userjs |-> "other.js", extensions |-> <<>>]
  /\ old.dir.userjs = File(content_of("user.js"))
  /\ instance_files.userjs = File(content_of("other.js"))

\* C16 as stated: after reconciliation of an instance that has a user.js
\* against a configuration without preferences file, user.js is absent,
\* whatever extensions the configuration declares.
C16_UserJsAbsent ==
  (rc = "done" /\ config.userjs = NoUserJs /\ old.dir.userjs.exists) =>
    ~instance_files.userjs.exists

\* C16, amended: after such a reconciliation user.js is absent when the
\* configuration declares no extension; when it declares extensions, user.js
\* exists and holds the line that enables unattended extension activation
\* and nothing else.
C16_UserJsAbsentWithoutExtensions ==
  (rc = "done" /\ config.userjs = NoUserJs /\ old.dir.userjs.exists) =>
    IF config.extensions = <<>>
    THEN ~instance_files.userjs.exists
    ELSE instance_files.userjs = File(autoDisableScopes)

\* An instance with the content of a declared file in user.js has been
\* reconciled against a configuration that declares nothing, and the file is
\* gone.
C16_Witness ==
  /\ rc = "done"
  /\ config = [userjs |-> NoUserJs, extensions |-> <<>>]
  /\ old.dir.userjs = File(content_of("user.js"))
  /\ ~instance_files.userjs.exists

\* C17: when extensions are declared, user.js after preference sync is the
\* lines of the declared preferences file (none if no file is declared)
\* followed by one line that enables unattended extension activation, and
\* that line occurs exactly once, however often preference sync has run.
C17_OneActivationLine ==
  (AfterUserJs /\ Len(config.extensions) > 0) =>
    LET lines == Lines(instance_files.userjs.content) IN
      /\ instance_files.userjs.exists
      /\ lines = Lines(declared_content) \o Lines(autoDisableScopes)
      /\ Cardinality({k \in 1..Len(lines) :
                        <<lines[k]>> = Lines(autoDisableScopes)}) = 1

\* The diff of install_extensions has been computed.
AfterDiff ==
  rc \in {"remove", "install", "write_instance", "helper", "start_browser",
          "wait", "done"}

\* C23: for the installed set I and the declared list D, to_remove is I
\* without the basenames of D and to_install is the declared entries whose
\* basename is not in I, also when D names a basename more than once.
C23_Diff ==
  AfterDiff =>
    LET I == Range(old.dir.installed_extensions)
        D == Range(config.extensions)
    IN /\ sync.to_remove = I \ {basename(e) : e \in D}
       /\ sync.to_install = {e \in D : basename(e) \notin I}

\* C24: an extension sync of an instance in order is killed; the extension
\* sync that follows it, with the same declared list, does not fail on what
\* the killed one left behind, and ends with the record, the extension files
\* and the metadata entries all equal to the declared set.  (Stated for file
\* names whose metadata key is the name without ".xpi".)
C24_RecoveryAfterKill ==
  (/\ old.recovery
   /\ \A e \in old.dir.extensions \cup Range(old.dir.installed_extensions)
                \cup Range(basenames(config.extensions)) :
        extension_id_from_file_path(e) = id_of(e)) =>
    /\ ~(rc = "failed" /\ sync.exception = "KeyError")
    /\ rc = "done" =>
         LET D == Range(basenames(config.extensions)) IN
           /\ instance_files.installed_extensions = basenames(config.extensions)
           /\ instance_files.extensions = D
           /\ DOMAIN instance_files.extension_preferences
                = {extension_id_from_file_path(e) : e \in D}

\* C27: the metadata key of an extension file is its name without ".xpi", so
\* the files that a sync removes or installs have keys that differ whenever
\* the names differ.
C27_IdIsNameWithoutSuffix ==
  LET names == sync.to_remove \cup {basename(e) : e \in sync.to_install} IN
    /\ \A e \in names : extension_id_from_file_path(e) = id_of(e)
    /\ \A e, f \in names :
         e # f => extension_id_from_file_path(e) # extension_id_from_file_path(f)

\* The extension taken off in this step of the removal loop.
Removed(e) ==
  /\ rc = "remove"
  /\ e \in sync.remove_todo
  /\ <<"remove", e>> \in sync'.ops \ sync.ops

\* C28: a round of the removal loop for an extension whose file is missing
\* already succeeds, as one for an extension whose file is there does, and
\* leaves neither the file nor the metadata entry.
C28_RemovalSucceeds ==
  [][\A e \in sync.remove_todo :
       (Removed(e) /\ e \notin instance_files.extensions) =>
         /\ rc' = "remove"
         /\ sync'.exception = ""
         /\ e \notin instance_files'.extensions
         /\ extension_id_from_file_path(e) \notin DOMAIN sync'.extension_preferences]_vars

\* C29: a sync that completes has started the helper browser once if it
\* removed or installed anything and not at all otherwise; and the helper
\* browser is never started before extension-preferences.json and the record
\* with the new installed_extensions are on disk.
C29_HelperOnceAfterPersist ==
  /\ sync.helper_starts \in {0, 1}
  /\ rc = "done" => sync.helper_starts = (IF changes > 0 THEN 1 ELSE 0)
  /\ rc \in {"diff", "remove", "install", "write_instance", "helper",
             "start_browser"} => sync.helper_starts = 0
  /\ sync.helper_starts > 0 =>
       /\ instance_files.extension_preferences = sync.extension_preferences
       /\ instance_files.installed_extensions = basenames(config.extensions)

\* A sync that removed one extension and installed another has run the
\* helper browser once and is done.
C29_Witness ==
  /\ rc = "done"
  /\ sync.to_remove # {}
  /\ sync.to_install # {}
  /\ sync.helper_starts = 1
  /\ sync.helper = "terminated"

\* C30: extension sync never returns or raises with the helper browser
\* still running.
C30_HelperNeverLeftRunning ==
  rc \in {"done", "failed"} => sync.helper # "running"

\* The helper browser could not be started, or has ended with a failure.
HelperFailed ==
  \/ rc = "failed" /\ sync.zenity = "running" /\ sync.helper = "none"
  \/ sync.helper = "exited" /\ sync.helper_returncode # 0

\* C31: an extension sync whose helper browser failed (could not be started,
\* or ended with a failure) ends with an exception, and the extension files,
\* the metadata file and the installed_extensions of the record stay as the
\* sync wrote them.
C31_HelperFailureSurfaced ==
  (HelperFailed /\ rc \in {"done", "failed"}) =>
    /\ rc = "failed"
    /\ sync.exception # ""
    /\ instance_files.installed_extensions = basenames(config.extensions)
    /\ instance_files.extension_preferences = sync.extension_preferences
    /\ {basename(e) : e \in sync.to_install} \subseteq instance_files.extensions
    /\ sync.to_remove \cap instance_files.extensions = {}

\* C32: from its claim write until its release write, the record on disk of
\* the instance an invocation has claimed carries the pid of that invocation;
\* the record write of extension sync keeps it.
C32_MarkerKeptWhileHolding ==
  \A p \in Procs :
    Holding(p) =>
      /\ mem[p].id \in DOMAIN store
      /\ store[mem[p].id].usage_pid = pid[p]
      /\ instance_in_use(store[mem[p].id])

\* An invocation has reconciled an instance with the declared extension, the
\* record on disk lists the extension, and the browser is running.
C32_Witness ==
  \E p \in Procs :
    /\ pc[p] = "browser"
    /\ store[mem[p].id].installed_extensions # <<>>
    /\ store[mem[p].id].usage_pid = pid[p]

\* Invocation p makes its claim write or its release write in this step.
MarkerWrite(p) ==
  \/ pc[p] = "claim" /\ pc'[p] = "reconcile"
  \/ pc[p] = "release" /\ pc'[p] \in {"done", "failed"}

\* C33: the claim write and the release write change nothing but usage_pid
\* in the record on disk, also when another invocation has written the
\* record since this one loaded it.
C33_MarkerWritesChangeOnlyMarker ==
  [][\A p \in Procs :
       MarkerWrite(p) =>
         /\ mem[p].id \in DOMAIN store
         /\ store'[mem[p].id] =
              [store[mem[p].id] EXCEPT !.usage_pid = store'[mem[p].id].usage_pid]]_vars

\* C34: with several instances to choose from, what multiple-mode selection
\* returns does not depend on the order in which the instance directories
\* are listed.
C34_SelectionIgnoresListingOrder ==
  \A p \in Procs :
    (pc[p] = "select" /\ profile.instantiation = MULTIPLE) =>
      \A o1, o2 \in Orders(dirs[p]) :
        oldest_free(o1, 1, NoInstance) = oldest_free(o2, 1, NoInstance)

\* The executable of a browser type, and the browser profile directories
\* that exist in an instance of that type.
executable_of(type) == type

browser_profile_dirs(type, dir) ==
  IF type = "firefox"
  THEN {e \in dir.firefox.entries : dir.firefox.exists /\ endswith(e, ".default")}
  ELSE IF dir.tor = "directory" THEN {<<"profile", ".default">>} ELSE {}

\* C35: for every browser type get_executable returns the executable of the
\* type, and find_browser_profile_dir returns the browser profile directory
\* of the instance if there is exactly one and raises BrokenInstanceException
\* if there is none or more than one; neither raises anything else.
C35_TypeLookups ==
  /\ lookup.call = "get_executable" =>
       /\ lookup.exception = ""
       /\ lookup.executable = executable_of(profile_type)
  /\ lookup.call = "find_browser_profile_dir" =>
       LET found == browser_profile_dirs(profile_type, browser_home) IN
         IF Cardinality(found) = 1
         THEN lookup.exception = "" /\ lookup.profile_dir \in found
         ELSE lookup.exception = "BrokenInstanceException"

====
